---- MODULE Spec2Model ----
(***************************************************************************)
(* A model of the chess rules engine: Position (src/position.py), the      *)
(* pieces (src/pieces.py), Board (src/board.py), GameEngine                *)
(* (src/gameengine.py) and the driver script (src/main.py).                *)
(*                                                                         *)
(* Python objects are modelled as records carrying an object identity      *)
(* (id); an attribute assignment through one reference is applied to every *)
(* grid cell that holds the same object, so aliasing between a board and   *)
(* its copy would show.  A raised exception is a value: the operation's    *)
(* result carries err # "none" and the program position becomes "crashed". *)
(***************************************************************************)
EXTENDS Integers, Sequences, FiniteSets, TLC

VARIABLES
    board,            \* GameEngine.board.grid: the live 8x8 grid
    clone,            \* the grid returned by the last Board.deep_copy()
    has_clone,        \* whether deep_copy() has returned a board
    err,              \* the exception raised by the last operation, or "none"
    last_op,          \* log: the last operation performed and its arguments
    api_calls,        \* number of direct Board calls made after the setup
    setup_step,       \* number of calls of SetupScript already performed
    current_turn,     \* GameEngine.current_turn
    game_winner,      \* GameEngine.game_winner ("None", "white", "black", "draw")
    no_action_turns,  \* GameEngine.no_action_turns
    white_king_pos,   \* GameEngine.white_king_pos
    black_king_pos,   \* GameEngine.black_king_pos
    pc,               \* position of the running program
    driver,           \* which loop drives play_turn: "game_run" or "main"
    turns_left,       \* play_turn calls main.py still has to make
    moving_piece,     \* play_turn's local moving_piece
    legal_moves,      \* play_turn's local legal_moves
    last_mover,       \* history: colour of the piece moved by the last applied move
    since_action,     \* history: half-moves applied since the last capture or pawn move
    resigned_by       \* history: colour of the side that resigned last, or "none"

vars == <<board, clone, has_clone, err, last_op, api_calls, setup_step,
          current_turn, game_winner, no_action_turns, white_king_pos,
          black_king_pos, pc, driver, turns_left, moving_piece, legal_moves,
          last_mover, since_action, resigned_by>>

boardVars == <<board, clone, has_clone>>
engineVars == <<current_turn, game_winner, no_action_turns, white_king_pos,
                black_king_pos, driver, turns_left, moving_piece, legal_moves,
                last_mover, since_action, resigned_by>>

-----------------------------------------------------------------------------
(* Position                                                                *)

Position(x, y) == [xpos |-> x, ypos |-> y]

\* Position.on_board: 0 < xpos <= 8 and 0 < ypos <= 8
on_board(p) == 0 < p.xpos /\ p.xpos <= 8 /\ 0 < p.ypos /\ p.ypos <= 8

\* Position.__add__: no bounds check
PosAdd(p, d) == Position(p.xpos + d[1], p.ypos + d[2])

BoardSquares == {Position(x, y) : x \in 1..8, y \in 1..8}

-----------------------------------------------------------------------------
(* Pieces                                                                  *)

Colors == {"white", "black"}

\* Python's None in a grid cell or a variable holding a piece
None ==
    [id |-> 0, kind |-> "None", color |-> "none", position |-> Position(0, 0),
     has_moved |-> "absent"]

\* The constructors: Pawn, King and Rook set has_moved = False; Queen, Bishop
\* and Knight only call Piece.__init__, so the attribute does not exist.
NewPiece(kind, color, position, id) ==
    [id |-> id, kind |-> kind, color |-> color, position |-> position,
     has_moved |-> IF kind \in {"Pawn", "King", "Rook"} THEN "False" ELSE "absent"]

\* GameEngine._opposite_color
_opposite_color(color) == IF color = "white" THEN "black" ELSE "white"

-----------------------------------------------------------------------------
(* Board                                                                   *)

\* Board.get_piece
get_piece(grid, position) ==
    IF ~on_board(position) THEN None ELSE grid[position]

BackRankKind(x) ==
    CASE x \in {1, 8} -> "Rook"
      [] x \in {2, 7} -> "Knight"
      [] x \in {3, 6} -> "Bishop"
      [] x = 4 -> "Queen"
      [] OTHER -> "King"

\* Board._setup_pieces; object identities 1..32
_setup_pieces ==
    [p \in BoardSquares |->
        CASE p.ypos = 1 -> NewPiece(BackRankKind(p.xpos), "white", p, p.xpos)
          [] p.ypos = 2 -> NewPiece("Pawn", "white", p, 8 + p.xpos)
          [] p.ypos = 7 -> NewPiece("Pawn", "black", p, 16 + p.xpos)
          [] p.ypos = 8 -> NewPiece(BackRankKind(p.xpos), "black", p, 24 + p.xpos)
          [] OTHER -> None]

\* Board(setup_pieces=False): the empty grid
EmptyGrid == [p \in BoardSquares |-> None]

\* piece.position = ..., piece.has_moved = ...: an assignment to the object,
\* seen through every cell of grid that refers to it
SetAttrs(grid, id, position, has_moved) ==
    [p \in BoardSquares |->
        IF grid[p].id = id /\ id # 0
        THEN [grid[p] EXCEPT !.position = position, !.has_moved = has_moved]
        ELSE grid[p]]

\* The grid cell a move writes the piece to: grid.loc[end_pos.ypos, end_pos.xpos]
TargetCellSwapped(end_pos) == Position(end_pos.ypos, end_pos.xpos)

TargetCell(end_pos) == end_pos

\* The safety check of move_piece letting every call through
SafetyCheckSkipped(piece_to_move) == TRUE

\* move_piece: `if piece_to_move:`
SafetyCheck(piece_to_move) == piece_to_move # None

\* The flag of a moved piece left as it was
HasMovedAfterMoveKept(piece_to_move) == piece_to_move.has_moved

\* move_piece: piece_to_move.has_moved = True
HasMovedAfterMove(piece_to_move) == "True"

\* Board.move_piece on grid; end_pos on the board
move_piece(grid, start_pos, end_pos) ==
    LET piece_to_move == get_piece(grid, start_pos) IN
    IF ~SafetyCheck(piece_to_move) THEN grid
    ELSE LET flag == HasMovedAfterMove(piece_to_move)
             g1 == SetAttrs(grid, piece_to_move.id, end_pos, flag)
             moved == [piece_to_move EXCEPT !.position = end_pos, !.has_moved = flag]
             g2 == IF on_board(start_pos) THEN [g1 EXCEPT ![start_pos] = None] ELSE g1
         IN [g2 EXCEPT ![TargetCell(end_pos)] = moved]

\* What move_piece on one board does to another grid that may share objects
move_piece_alias(other, grid, start_pos, end_pos) ==
    LET piece_to_move == get_piece(grid, start_pos) IN
    IF ~SafetyCheck(piece_to_move) THEN other
    ELSE SetAttrs(other, piece_to_move.id, end_pos, HasMovedAfterMove(piece_to_move))

\* A pair of grids: g is the board the method is called on, o is the other
\* board alive at the time (the copy when g is the live board, and conversely)
Pair(g, o) == [g |-> g, o |-> o]

MovePiece2(pair, start_pos, end_pos) ==
    Pair(move_piece(pair.g, start_pos, end_pos),
         move_piece_alias(pair.o, pair.g, start_pos, end_pos))

\* The rook's destination with the queen-side rook sent to file 3
RookDestinationFileC(king_end_pos) == IF king_end_pos.xpos = 7 THEN 6 ELSE 3

\* perform_castle: the file of rook_destination
RookDestinationFile(king_end_pos) == IF king_end_pos.xpos = 7 THEN 6 ELSE 4

\* Board.perform_castle: the king by move_piece, then the rook of the side
\* inferred from the king's destination file
PerformCastle2(pair, king_start_pos, king_end_pos) ==
    LET castling_rank == king_start_pos.ypos
        afterKing == MovePiece2(pair, king_start_pos, king_end_pos)
        castling_rook_pos ==
            IF king_end_pos.xpos = 7 THEN Position(8, castling_rank)
                                     ELSE Position(1, castling_rank)
        rook_destination == Position(RookDestinationFile(king_end_pos), castling_rank)
    IN MovePiece2(afterKing, castling_rook_pos, rook_destination)

perform_castle(grid, king_start_pos, king_end_pos) ==
    PerformCastle2(Pair(grid, EmptyGrid), king_start_pos, king_end_pos).g

\* promote_pawn putting the pawn object itself back on the square
PromotedIdSame(id) == id

\* Identity of the object promote_pawn constructs in place of pawn object id
PromotedId(id) == id + 32

\* The safety check of promote_pawn letting every piece through
IsPawnAnyPiece(pawn_to_promote) == pawn_to_promote # None

\* promote_pawn: isinstance(pawn_to_promote, Pawn)
IsPawn(pawn_to_promote) == pawn_to_promote.kind = "Pawn"

\* Board.promote_pawn: [err, grid]; raises Exception unless a Pawn is there
promote_pawn(grid, position, promotion_choice) ==
    LET pawn_to_promote == get_piece(grid, position) IN
    IF ~IsPawn(pawn_to_promote)
    THEN [err |-> "Exception", grid |-> grid]
    ELSE LET new_piece ==
                 [NewPiece(promotion_choice, pawn_to_promote.color, position,
                           PromotedId(pawn_to_promote.id))
                  EXCEPT !.has_moved = "True"]
         IN [err |-> "none", grid |-> [grid EXCEPT ![position] = new_piece]]

\* Identity of the object _copy_piece constructs from object id
CopyId(id) == id + 100

\* deep_copy._copy_piece sharing the piece object instead of constructing one
_copy_piece_shared(piece_to_copy) == piece_to_copy

\* deep_copy._copy_piece, for a piece that has the attribute has_moved
_copy_piece(piece_to_copy) ==
    IF piece_to_copy = None THEN None
    ELSE [piece_to_copy EXCEPT !.id = CopyId(piece_to_copy.id)]

\* Board.deep_copy: [err, grid]; reading has_moved of a piece that never got
\* the attribute raises AttributeError
deep_copy(grid) ==
    IF \E p \in BoardSquares : grid[p] # None /\ grid[p].has_moved = "absent"
    THEN [err |-> "AttributeError", grid |-> EmptyGrid]
    ELSE [err |-> "none", grid |-> [p \in BoardSquares |-> _copy_piece(grid[p])]]

-----------------------------------------------------------------------------
(* Pseudo-legal moves (src/pieces.py)                                      *)

\* The debugging guard of Rook and Bishop: len(legal_moves) > 64
MaxCollected == 64

RookDirections == << <<1, 0>>, <<-1, 0>>, <<0, 1>>, <<0, -1>> >>
BishopDirections == << <<1, 1>>, <<-1, -1>>, <<1, -1>>, <<-1, 1>> >>

\* The capacity guard tripping at more than 6 collected moves
CapacityGuardLow(moves) == Len(moves) > 6

\* The capacity guard of the while loop: `if len(legal_moves) > 64: break`
CapacityGuard(moves) == Len(moves) > MaxCollected

\* The while loop of one direction, from current_position on
RECURSIVE SlideRay(_, _, _, _, _)
SlideRay(grid, color, current_position, direction, moves) ==
    IF ~on_board(current_position) THEN moves
    ELSE IF CapacityGuard(moves) THEN moves
    ELSE LET piece_on_square == get_piece(grid, current_position) IN
         IF piece_on_square = None
         THEN SlideRay(grid, color, PosAdd(current_position, direction), direction,
                       Append(moves, current_position))
         ELSE IF piece_on_square.color # color
              THEN Append(moves, current_position)
              ELSE moves

\* The for loop over allowed_directions, from the i-th direction on
RECURSIVE SlideMoves(_, _, _, _, _)
SlideMoves(grid, piece, directions, i, moves) ==
    IF i > Len(directions) THEN moves
    ELSE SlideMoves(grid, piece, directions, i + 1,
                    SlideRay(grid, piece.color, PosAdd(piece.position, directions[i]),
                             directions[i], moves))

\* The value of a Python call: None (is_none) or a list
PyNone == [is_none |-> TRUE, list |-> << >>]
PyList(l) == [is_none |-> FALSE, list |-> l]

\* piece.get_legal_moves(board): Rook and Bishop cast rays; the bodies of
\* Pawn, King, Queen and Knight are `pass`, which returns None
get_legal_moves(piece, grid) ==
    CASE piece.kind = "Rook" -> PyList(SlideMoves(grid, piece, RookDirections, 1, << >>))
      [] piece.kind = "Bishop" -> PyList(SlideMoves(grid, piece, BishopDirections, 1, << >>))
      [] OTHER -> PyNone

SeqToSet(s) == {s[i] : i \in 1..Len(s)}

-----------------------------------------------------------------------------
(* Check detection (GameEngine._is_in_check)                               *)

KnightOffsets ==
    << <<2, 1>>, <<-2, 1>>, <<2, -1>>, <<-2, -1>>,
       <<1, 2>>, <<1, -2>>, <<-1, 2>>, <<-1, -2>> >>

\* The straight directions without the two along the rank
straight_directions_file_only == << <<0, 1>>, <<0, -1>> >>

straight_directions == << <<0, 1>>, <<0, -1>>, <<1, 0>>, <<-1, 0>> >>
diagonal_down_directions == << <<1, -1>>, <<-1, -1>> >>
diagonal_up_directions == << <<1, 1>>, <<-1, 1>> >>
diagonal_directions == diagonal_down_directions \o diagonal_up_directions
all_directions == straight_directions \o diagonal_directions

\* The pawn test with the colours exchanged: a white enemy pawn threatening
\* on the upward diagonals, a black one on the downward diagonals
PawnThreatensSwapped(color, direction) ==
    \/ direction \in SeqToSet(diagonal_up_directions) /\ color = "black"
    \/ direction \in SeqToSet(diagonal_down_directions) /\ color = "white"

\* The two tests on an enemy pawn one diagonal step from the king of colour
\* color: `direction in diagonal_up_directions and color == 'white'`,
\* `direction in diagonal_down_directions and color == 'black'`
PawnThreatens(color, direction) ==
    \/ direction \in SeqToSet(diagonal_up_directions) /\ color = "white"
    \/ direction \in SeqToSet(diagonal_down_directions) /\ color = "black"

\* One direction of the ray scan: the while loop from current_pos (already
\* `steps` steps away from the king); TRUE iff the loop returns True
RECURSIVE RayThreat(_, _, _, _, _)
RayThreat(color, grid, current_pos, direction, steps) ==
    IF ~on_board(current_pos) THEN FALSE
    ELSE LET next_pos == PosAdd(current_pos, direction)
             n == steps + 1
             suspect_piece == get_piece(grid, next_pos)
         IN
         IF suspect_piece = None THEN RayThreat(color, grid, next_pos, direction, n)
         ELSE IF suspect_piece.color = color THEN FALSE
         ELSE IF direction \in SeqToSet(straight_directions)
              THEN suspect_piece.kind \in {"Rook", "Queen"}
         ELSE IF suspect_piece.kind \in {"Bishop", "Queen"} THEN TRUE
         ELSE IF suspect_piece.kind = "Pawn" /\ n = 1
              THEN IF PawnThreatens(color, direction)
                   THEN TRUE
                   \* neither return nor break: the scan goes on past the pawn
                   ELSE RayThreat(color, grid, next_pos, direction, n)
         ELSE FALSE

\* GameEngine._is_in_check
_is_in_check(color, grid, king_pos) ==
    \/ \E i \in 1..Len(KnightOffsets) :
          LET suspect_piece == get_piece(grid, PosAdd(king_pos, KnightOffsets[i])) IN
          suspect_piece.kind = "Knight" /\ suspect_piece.color # color
    \/ \E i \in 1..Len(all_directions) :
          RayThreat(color, grid, king_pos, all_directions[i], 0)

-----------------------------------------------------------------------------
(* Legality filter and game end (src/gameengine.py)                        *)

\* The draw threshold of check_game_ended: no_action_turns >= 50
DrawLimit == 50

\* The result of a call that may raise: err is "none" or the exception
Ok(l) == [err |-> "none", list |-> l]
Raise(e) == [err |-> e, list |-> << >>]

\* The body of the for loop of get_fully_legal_moves for one move, on the
\* copy hyp of the board: TRUE iff the move is appended
KeepsKingSafe(piece, hyp, move, wk, bk) ==
    LET piece_to_move_on_copy == get_piece(hyp, piece.position)
        hypothetical_board == move_piece(hyp, piece_to_move_on_copy.position, move)
        king_pos_to_check ==
            IF piece.kind = "King" THEN move
            ELSE IF piece.color = "white" THEN wk ELSE bk
    IN ~_is_in_check(piece.color, hypothetical_board, king_pos_to_check)

\* GameEngine.get_fully_legal_moves(piece) on the live grid with the cached
\* king squares wk, bk.  Iterating over None raises TypeError; deep_copy may
\* raise AttributeError, and it is called once per pseudo-legal move.
get_fully_legal_moves(piece, grid, wk, bk) ==
    LET pseudo_legal_moves == get_legal_moves(piece, grid) IN
    IF pseudo_legal_moves.is_none THEN Raise("TypeError")
    ELSE IF pseudo_legal_moves.list = << >> THEN Ok(<< >>)
    ELSE LET copied == deep_copy(grid) IN
         IF copied.err # "none" THEN Raise(copied.err)
         ELSE IF get_piece(copied.grid, piece.position) = None
              THEN Raise("AttributeError")
              ELSE LET Keep(move) == KeepsKingSafe(piece, copied.grid, move, wk, bk)
                   IN Ok(SelectSeq(pseudo_legal_moves.list, Keep))

\* The k-th square (0..63) of the scan of check_game_ended: file by file,
\* each file from rank 1 to rank 8
ScanSquare(k) == Position((k \div 8) + 1, (k % 8) + 1)

\* The double loop of check_game_ended from the k-th square on:
\* "moves" (return False), "nomoves" (loop ran out) or the exception raised
RECURSIVE ScanForMoves(_, _, _, _, _)
ScanForMoves(grid, turn, wk, bk, k) ==
    IF k >= 64 THEN "nomoves"
    ELSE LET piece == get_piece(grid, ScanSquare(k)) IN
         IF piece # None /\ piece.color = turn
         THEN LET r == get_fully_legal_moves(piece, grid, wk, bk) IN
              IF r.err # "none" THEN r.err
              ELSE IF r.list # << >> THEN "moves"
              ELSE ScanForMoves(grid, turn, wk, bk, k + 1)
         ELSE ScanForMoves(grid, turn, wk, bk, k + 1)

\* The threshold test of check_game_ended
DrawByInactivityLate(count) == count > DrawLimit

\* The threshold test passed by every value of the counter
DrawByInactivityAlways(count) == count >= 0

DrawByInactivity(count) == count >= DrawLimit

\* GameEngine.check_game_ended: [err, winner, ret] with winner the value of
\* game_winner afterwards and ret the value returned
check_game_ended(grid, turn, count, wk, bk, winner) ==
    IF DrawByInactivity(count)
    THEN [err |-> "none", winner |-> "draw", ret |-> FALSE]
    ELSE LET scan == ScanForMoves(grid, turn, wk, bk, 0) IN
         IF scan = "moves" THEN [err |-> "none", winner |-> winner, ret |-> FALSE]
         ELSE IF scan # "nomoves" THEN [err |-> scan, winner |-> winner, ret |-> FALSE]
         ELSE IF ~_is_in_check(turn, grid, IF turn = "white" THEN wk ELSE bk)
              THEN [err |-> "none", winner |-> "draw", ret |-> TRUE]
              ELSE [err |-> "none", winner |-> _opposite_color(turn), ret |-> FALSE]

\* The rook test of _possible_castles without the has_moved part
RookAllowsCastleEvenMoved(potential_rook) == potential_rook.kind = "Rook"

\* _possible_castles: the flag of a side stays True unless
\* `not isinstance(potential_rook, Rook) or potential_rook.has_moved`
RookAllowsCastle(potential_rook) ==
    ~(potential_rook.kind # "Rook" \/ potential_rook.has_moved = "True")

\* GameEngine._possible_castles: [err, king_side, queen_side]; king.has_moved
\* raises AttributeError when the cached square is empty or holds a piece
\* that never got the attribute
_possible_castles(grid, turn, wk, bk) ==
    LET king_pos == IF turn = "white" THEN wk ELSE bk
        king == get_piece(grid, king_pos)
        castle_rank == IF turn = "white" THEN 1 ELSE 8
        potential_king_rook == get_piece(grid, Position(8, castle_rank))
        potential_queen_rook == get_piece(grid, Position(1, castle_rank))
    IN IF king = None \/ king.has_moved = "absent"
       THEN [err |-> "AttributeError", king_side |-> FALSE, queen_side |-> FALSE]
       ELSE IF king.has_moved = "True"
       THEN [err |-> "none", king_side |-> FALSE, queen_side |-> FALSE]
       ELSE [err |-> "none",
             king_side |-> RookAllowsCastle(potential_king_rook),
             queen_side |-> RookAllowsCastle(potential_queen_rook)]

\* The tuple returned by _possible_castles as it is logged in last_op.choice
CastleFlags(king_side, queen_side) ==
    IF king_side THEN (IF queen_side THEN "both" ELSE "king_side")
                 ELSE (IF queen_side THEN "queen_side" ELSE "neither")

-----------------------------------------------------------------------------
(* Scenario and input bounds                                               *)

\* Direct Board calls made on engine.board before a game is driven: the white
\* queen takes every minor piece, the other queen and all pawns but the
\* h-pawns, and is taken by the bishop from f8.  The position left is
\*   white: Ra1 Ke1 Rh1 Ph2     black: Ra8 Ke8 Bg8 Rh8 Ph7
\* where every piece has the attribute has_moved, so deep_copy succeeds.
SetupScript ==
    << <<Position(4, 1), Position(3, 1)>>, <<Position(3, 1), Position(2, 1)>>,
       <<Position(2, 1), Position(1, 2)>>, <<Position(1, 2), Position(2, 2)>>,
       <<Position(2, 2), Position(3, 2)>>, <<Position(3, 2), Position(4, 2)>>,
       <<Position(4, 2), Position(5, 2)>>, <<Position(5, 2), Position(6, 2)>>,
       <<Position(6, 2), Position(7, 2)>>, <<Position(7, 2), Position(7, 1)>>,
       <<Position(7, 1), Position(6, 1)>>, <<Position(6, 1), Position(1, 7)>>,
       <<Position(1, 7), Position(2, 7)>>, <<Position(2, 7), Position(3, 7)>>,
       <<Position(3, 7), Position(4, 7)>>, <<Position(4, 7), Position(5, 7)>>,
       <<Position(5, 7), Position(6, 7)>>, <<Position(6, 7), Position(7, 7)>>,
       <<Position(7, 7), Position(2, 8)>>, <<Position(2, 8), Position(3, 8)>>,
       <<Position(3, 8), Position(4, 8)>>, <<Position(4, 8), Position(7, 8)>>,
       <<Position(6, 8), Position(7, 8)>> >>

\* The setup is either not done at all (the position of a new game) or done
SetupDone == setup_step = 0 \/ setup_step = Len(SetupScript)

\* Squares the user types at the prompts of play_turn
EngineSquares ==
    {Position(1, 1), Position(2, 1), Position(3, 1), Position(1, 8),
     Position(2, 8), Position(5, 1), Position(5, 8), Position(8, 2),
     Position(8, 7)}

\* Squares passed as end_pos of direct move_piece calls after the setup
ApiSquares == {Position(5, 1), Position(7, 1), Position(8, 1), Position(8, 8)}

\* Squares passed as start_pos of direct move_piece calls: occupied ones, the
\* empty g1 and one that is off the board
ApiFromSquares ==
    {Position(5, 1), Position(7, 1), Position(8, 1), Position(8, 2),
     Position(8, 7), Position(9, 1)}

\* Squares passed as position of direct promote_pawn calls: a pawn's, a
\* king's, a rook's (or that of a pawn moved there), an empty one and one
\* that is off the board
ApiPromoteSquares ==
    {Position(8, 2), Position(5, 1), Position(8, 8), Position(7, 1), Position(9, 1)}

\* (king_start_pos, king_end_pos) passed to Board.perform_castle
CastleInputs ==
    {<<Position(5, 1), Position(7, 1)>>, <<Position(5, 1), Position(3, 1)>>}

\* Classes passed to Board.promote_pawn by direct calls
ApiPromotionChoices == {"Queen", "Knight"}

\* Classes _ask_promotion_choice can return
PromotionChoices == {"Queen", "Rook", "Bishop", "Knight"}

\* Direct Board calls (other than deep_copy) made after the setup
MaxApiCalls == 2

\* The number of play_turn calls in main.py
MainTurns == 3

NoOp == [name |-> "none", target |-> "none", start |-> Position(0, 0),
         end |-> Position(0, 0), choice |-> "none"]

Op(name, target, start, end, choice) ==
    [name |-> name, target |-> target, start |-> start, end |-> end,
     choice |-> choice]

-----------------------------------------------------------------------------
(* Construction: GameEngine.__init__                                       *)

Init ==
    /\ board = _setup_pieces
    /\ clone = EmptyGrid
    /\ has_clone = FALSE
    /\ err = "none"
    /\ last_op = NoOp
    /\ api_calls = 0
    /\ setup_step = 0
    /\ current_turn = "white"
    /\ game_winner = "None"
    /\ no_action_turns = 0
    /\ white_king_pos = Position(5, 1)
    /\ black_king_pos = Position(5, 8)
    /\ pc = "constructed"
    /\ driver = "none"
    /\ turns_left = 0
    /\ moving_piece = None
    /\ legal_moves = << >>
    /\ last_mover = "none"
    /\ since_action = 0
    /\ resigned_by = "none"

-----------------------------------------------------------------------------
(* Direct calls of the Board methods                                       *)

\* engine.board.move_piece(...) for the next call of SetupScript
SetupCall ==
    /\ pc = "constructed"
    /\ last_op.name \in {"none", "setup"}
    /\ setup_step < Len(SetupScript)
    /\ board' = move_piece(board, SetupScript[setup_step + 1][1],
                           SetupScript[setup_step + 1][2])
    /\ setup_step' = setup_step + 1
    /\ last_op' = Op("setup", "live", SetupScript[setup_step + 1][1],
                     SetupScript[setup_step + 1][2], "none")
    /\ UNCHANGED <<clone, has_clone, err, api_calls, pc>>
    /\ UNCHANGED engineVars

\* Two more direct calls after the prepared position, for the queries of
\* _is_in_check only: move_piece(h7, f5) and move_piece(g8, h3) put the black
\* pawn on f5 and the black bishop behind it on the diagonal e6-h3
CheckScript ==
    << <<Position(8, 7), Position(6, 5)>>,
       <<Position(7, 8), Position(8, 3)>> >>

\* engine.board.move_piece(...) for the next call of CheckScript
ArrangeCall ==
    /\ pc = "constructed"
    /\ last_op.name \in {"setup", "arrange"}
    /\ setup_step >= Len(SetupScript)
    /\ setup_step < Len(SetupScript) + Len(CheckScript)
    /\ board' = move_piece(board, CheckScript[setup_step - Len(SetupScript) + 1][1],
                           CheckScript[setup_step - Len(SetupScript) + 1][2])
    /\ setup_step' = setup_step + 1
    /\ last_op' = Op("arrange", "live", CheckScript[setup_step - Len(SetupScript) + 1][1],
                     CheckScript[setup_step - Len(SetupScript) + 1][2], "none")
    /\ UNCHANGED <<clone, has_clone, err, api_calls, pc>>
    /\ UNCHANGED engineVars

ApiEnabled(target) ==
    /\ pc = "constructed"
    /\ SetupDone
    /\ api_calls < MaxApiCalls
    /\ target \in {"live", "clone"}
    /\ target = "clone" => has_clone

\* The grids after a call on target left them as pair (g: target, o: other)
ApiResult(target, pair) ==
    /\ board' = IF target = "live" THEN pair.g ELSE pair.o
    /\ clone' = IF target = "live" THEN pair.o ELSE pair.g

ApiPair(target) ==
    IF target = "live" THEN Pair(board, clone) ELSE Pair(clone, board)

\* Board.move_piece(start_pos, end_pos) on the live board or on the copy
ApiMovePiece(target, start_pos, end_pos) ==
    /\ ApiEnabled(target)
    /\ ApiResult(target, MovePiece2(ApiPair(target), start_pos, end_pos))
    /\ err' = "none"
    /\ last_op' = Op("move_piece", target, start_pos, end_pos, "none")
    /\ api_calls' = api_calls + 1
    /\ UNCHANGED <<has_clone, setup_step, pc>>
    /\ UNCHANGED engineVars

\* Board.perform_castle(king_start_pos, king_end_pos)
ApiPerformCastle(target, king_start_pos, king_end_pos) ==
    /\ ApiEnabled(target)
    /\ ApiResult(target, PerformCastle2(ApiPair(target), king_start_pos, king_end_pos))
    /\ err' = "none"
    /\ last_op' = Op("perform_castle", target, king_start_pos, king_end_pos, "none")
    /\ api_calls' = api_calls + 1
    /\ UNCHANGED <<has_clone, setup_step, pc>>
    /\ UNCHANGED engineVars

\* Board.promote_pawn(position, promotion_choice)
ApiPromotePawn(target, position, promotion_choice) ==
    /\ ApiEnabled(target)
    /\ LET r == promote_pawn(ApiPair(target).g, position, promotion_choice) IN
       /\ ApiResult(target, Pair(r.grid, ApiPair(target).o))
       /\ err' = r.err
    /\ last_op' = Op("promote_pawn", target, position, position, promotion_choice)
    /\ api_calls' = api_calls + 1
    /\ UNCHANGED <<has_clone, setup_step, pc>>
    /\ UNCHANGED engineVars

\* c = engine.board.deep_copy()
ApiDeepCopy ==
    /\ pc = "constructed"
    /\ SetupDone
    /\ LET r == deep_copy(board) IN
       /\ err' = r.err
       /\ clone' = IF r.err = "none" THEN r.grid ELSE clone
       /\ has_clone' = (has_clone \/ r.err = "none")
    /\ last_op' = Op("deep_copy", "live", Position(0, 0), Position(0, 0), "none")
    /\ UNCHANGED <<board, api_calls, setup_step, pc>>
    /\ UNCHANGED engineVars

\* engine._possible_castles() called between two operations: the board is
\* only read; the tuple returned is logged
CallPossibleCastles ==
    /\ pc \in {"constructed", "select"}
    /\ SetupDone
    /\ last_op.name # "_possible_castles"
    /\ LET r == _possible_castles(board, current_turn, white_king_pos, black_king_pos) IN
       /\ err' = r.err
       /\ pc' = IF r.err = "none" THEN pc ELSE "crashed"
       /\ last_op' = Op("_possible_castles", "live",
                        IF current_turn = "white" THEN white_king_pos ELSE black_king_pos,
                        IF current_turn = "white" THEN white_king_pos ELSE black_king_pos,
                        IF r.err = "none" THEN CastleFlags(r.king_side, r.queen_side)
                                          ELSE "raised")
    /\ UNCHANGED <<board, clone, has_clone, api_calls, setup_step>>
    /\ UNCHANGED engineVars

\* GameEngine._is_in_check(color, engine.board, king_pos), the static method
\* called on the board as it stands between two calls of the setup; the
\* value returned is logged (last_op.target holds the colour asked about)
CallIsInCheck(color, king_pos) ==
    /\ pc = "constructed"
    /\ last_op.name \in {"none", "setup", "arrange"}
    /\ last_op' = Op("_is_in_check", color, king_pos, king_pos,
                     IF _is_in_check(color, board, king_pos) THEN "True" ELSE "False")
    /\ UNCHANGED <<board, clone, has_clone, err, api_calls, setup_step, pc>>
    /\ UNCHANGED engineVars

NextBoard ==
    \/ SetupCall
    \/ ArrangeCall
    \/ CallPossibleCastles
    \/ \E color \in Colors : \E sq \in BoardSquares : CallIsInCheck(color, sq)
    \/ \E target \in {"live", "clone"} : \E s \in ApiFromSquares : \E e \in ApiSquares :
          ApiMovePiece(target, s, e)
    \/ \E target \in {"live", "clone"} : \E c \in CastleInputs :
          ApiPerformCastle(target, c[1], c[2])
    \/ \E target \in {"live", "clone"} : \E s \in ApiPromoteSquares :
          \E k \in ApiPromotionChoices : ApiPromotePawn(target, s, k)
    \/ ApiDeepCopy

SpecBoard == Init /\ [][NextBoard]_vars

-----------------------------------------------------------------------------
(* The engine: play_turn, resign, game_run and main.py                     *)

\* One more direct call before a game is driven from the prepared position:
\* engine.board.move_piece(h2, h7) puts the white pawn one step from its far
\* rank, next to the bishop on g8
PlacePawnCall ==
    /\ pc = "constructed"
    /\ setup_step = Len(SetupScript)
    /\ last_op.name = "setup"
    /\ board' = move_piece(board, Position(8, 2), Position(8, 7))
    /\ last_op' = Op("place_pawn", "live", Position(8, 2), Position(8, 7), "none")
    /\ UNCHANGED <<clone, has_clone, err, api_calls, setup_step, pc>>
    /\ UNCHANGED engineVars

\* The direct calls after which a game may be started
BeforeGame == {"none", "setup", "place_pawn"}

\* game_run(): the while test of a game without a result lets the first
\* turn begin
StartGameRun ==
    /\ pc = "constructed"
    /\ SetupDone
    /\ last_op.name \in BeforeGame
    /\ game_winner = "None"
    /\ pc' = "select"
    /\ driver' = "game_run"
    /\ UNCHANGED <<board, clone, has_clone, err, last_op, api_calls, setup_step,
                   current_turn, game_winner, no_action_turns, white_king_pos,
                   black_king_pos, turns_left, moving_piece, legal_moves,
                   last_mover, since_action, resigned_by>>

\* main.py: the first of its play_turn calls
StartMain ==
    /\ pc = "constructed"
    /\ SetupDone
    /\ last_op.name \in BeforeGame
    /\ pc' = "select"
    /\ driver' = "main"
    /\ turns_left' = MainTurns
    /\ UNCHANGED <<board, clone, has_clone, err, last_op, api_calls, setup_step,
                   current_turn, game_winner, no_action_turns, white_king_pos,
                   black_king_pos, moving_piece, legal_moves,
                   last_mover, since_action, resigned_by>>

\* calculate_and_show_moves(piece) at the top of play_turn's while loop:
\* either legal_moves is set and the destination is asked for, or the
\* exception ends the program
ShowMoves(piece) ==
    LET r == get_fully_legal_moves(piece, board, white_king_pos, black_king_pos) IN
    /\ moving_piece' = piece
    /\ legal_moves' = r.list
    /\ err' = r.err
    /\ pc' = IF r.err = "none" THEN "ask_dest" ELSE "crashed"

\* play_turn: ask_select_piece returns the piece on position (an occupied
\* square of the side to move; anything else is asked again)
SelectPiece(position) ==
    /\ pc = "select"
    /\ LET selected_piece == get_piece(board, position) IN
       /\ selected_piece # None
       /\ selected_piece.color = current_turn
       /\ ShowMoves(selected_piece)
    /\ last_op' = Op("select", "live", position, position, "none")
    /\ UNCHANGED <<board, clone, has_clone, api_calls, setup_step, current_turn,
                   game_winner, no_action_turns, white_king_pos, black_king_pos,
                   driver, turns_left, last_mover, since_action, resigned_by>>

\* resign recording the side that resigned as the winner
resign_to_resigner ==
    /\ game_winner' = current_turn
    /\ resigned_by' = current_turn

\* GameEngine.resign
resign ==
    /\ game_winner' = _opposite_color(current_turn)
    /\ resigned_by' = current_turn

\* play_turn: 'resign' typed when the piece is asked for
ResignAtSelect ==
    /\ pc = "select"
    /\ resign
    /\ pc' = "turn_done"
    /\ last_op' = Op("resign", "live", Position(0, 0), Position(0, 0), "none")
    /\ UNCHANGED <<board, clone, has_clone, err, api_calls, setup_step, current_turn,
                   no_action_turns, white_king_pos, black_king_pos, driver,
                   turns_left, moving_piece, legal_moves, last_mover, since_action>>

\* play_turn: 'resign' typed when the destination is asked for
ResignAtDest ==
    /\ pc = "ask_dest"
    /\ resign
    /\ pc' = "turn_done"
    /\ last_op' = Op("resign", "live", Position(0, 0), Position(0, 0), "none")
    /\ UNCHANGED <<board, clone, has_clone, err, api_calls, setup_step, current_turn,
                   no_action_turns, white_king_pos, black_king_pos, driver,
                   turns_left, moving_piece, legal_moves, last_mover, since_action>>

\* play_turn: the destination holds a piece of the side to move, which
\* becomes the moving piece; the loop continues with its moves
Reselect(desired_square) ==
    /\ pc = "ask_dest"
    /\ LET desired_square_occupant == get_piece(board, desired_square) IN
       /\ desired_square_occupant # None
       /\ desired_square_occupant.color = current_turn
       /\ ShowMoves(desired_square_occupant)
    /\ last_op' = Op("reselect", "live", desired_square, desired_square, "none")
    /\ UNCHANGED <<board, clone, has_clone, api_calls, setup_step, current_turn,
                   game_winner, no_action_turns, white_king_pos, black_king_pos,
                   driver, turns_left, last_mover, since_action, resigned_by>>

\* The test of play_turn accepting every destination
DestinationIsLegalAlways(desired_square, moves) == TRUE

\* play_turn: desired_square in legal_moves
DestinationIsLegal(desired_square, moves) == desired_square \in SeqToSet(moves)

\* play_turn: the destination is not in legal_moves; the loop continues
RejectMove(desired_square) ==
    /\ pc = "ask_dest"
    /\ LET desired_square_occupant == get_piece(board, desired_square) IN
       ~(desired_square_occupant # None /\ desired_square_occupant.color = current_turn)
    /\ ~DestinationIsLegal(desired_square, legal_moves)
    /\ ShowMoves(moving_piece)
    /\ last_op' = Op("reject", "live", moving_piece.position, desired_square, "none")
    /\ UNCHANGED <<board, clone, has_clone, api_calls, setup_step, current_turn,
                   game_winner, no_action_turns, white_king_pos, black_king_pos,
                   driver, turns_left, last_mover, since_action, resigned_by>>

\* The update of no_action_turns after the move
CountTurnNoCaptureReset(count, is_pawn_move, desired_square_occupant) ==
    IF is_pawn_move THEN 0 ELSE count + 1

CountTurn(count, is_pawn_move, desired_square_occupant) ==
    IF is_pawn_move \/ desired_square_occupant # None THEN 0 ELSE count + 1

NumPieces(grid) == Cardinality({p \in BoardSquares : grid[p] # None})

\* play_turn: the destination is in legal_moves; the move is applied, the
\* counter and the king cache are updated, a pawn on rank 1 or 8 is promoted
ApplyMove(desired_square, promotion_choice) ==
    /\ pc = "ask_dest"
    /\ LET desired_square_occupant == get_piece(board, desired_square)
           is_pawn_move == moving_piece.kind = "Pawn"
           promotes == is_pawn_move /\ desired_square.ypos \in {1, 8}
           moved == move_piece(board, moving_piece.position, desired_square)
           promoted == promote_pawn(moved, desired_square, promotion_choice)
       IN
       /\ ~(desired_square_occupant # None /\ desired_square_occupant.color = current_turn)
       /\ DestinationIsLegal(desired_square, legal_moves)
       /\ promotes \/ promotion_choice = "Queen"
       /\ board' = IF promotes THEN promoted.grid ELSE moved
       /\ err' = IF promotes THEN promoted.err ELSE "none"
       /\ pc' = IF promotes /\ promoted.err # "none" THEN "crashed" ELSE "turn_done"
       /\ no_action_turns' = CountTurn(no_action_turns, is_pawn_move, desired_square_occupant)
       /\ white_king_pos' =
              IF moving_piece.kind = "King" /\ moving_piece.color = "white"
              THEN desired_square ELSE white_king_pos
       /\ black_king_pos' =
              IF moving_piece.kind = "King" /\ moving_piece.color # "white"
              THEN desired_square ELSE black_king_pos
       /\ last_mover' = moving_piece.color
       /\ since_action' =
              IF moving_piece.kind = "Pawn" \/ NumPieces(moved) < NumPieces(board)
              THEN 0 ELSE since_action + 1
       /\ last_op' = Op("move", "live", moving_piece.position, desired_square,
                        IF promotes THEN promotion_choice ELSE "none")
    /\ moving_piece' = None
    /\ legal_moves' = << >>
    /\ UNCHANGED <<clone, has_clone, api_calls, setup_step, current_turn,
                   game_winner, driver, turns_left, resigned_by>>

\* game_run, after play_turn returned: the turn flips, check_game_ended runs
\* and the while test decides whether another turn begins
GameRunStep ==
    /\ pc = "turn_done"
    /\ driver = "game_run"
    /\ LET turn == _opposite_color(current_turn)
           r == check_game_ended(board, turn, no_action_turns, white_king_pos,
                                 black_king_pos, game_winner)
       IN
       /\ current_turn' = turn
       /\ err' = r.err
       /\ game_winner' = r.winner
       /\ pc' = IF r.err # "none" THEN "crashed"
                ELSE IF r.winner # "None" THEN "exited" ELSE "select"
       \* the value check_game_ended returned (game_run discards it) is logged
       /\ last_op' = Op("check_game_ended", "live", Position(0, 0), Position(0, 0),
                        IF r.err # "none" THEN "raised"
                        ELSE IF r.ret THEN "True" ELSE "False")
    /\ UNCHANGED <<board, clone, has_clone, api_calls, setup_step, no_action_turns,
                   white_king_pos, black_king_pos, driver, turns_left, moving_piece,
                   legal_moves, last_mover, since_action, resigned_by>>

\* main.py, after play_turn returned: the next play_turn call, or the end
MainStep ==
    /\ pc = "turn_done"
    /\ driver = "main"
    /\ turns_left' = turns_left - 1
    /\ pc' = IF turns_left - 1 > 0 THEN "select" ELSE "exited"
    /\ last_op' = Op("main", "live", Position(0, 0), Position(0, 0), "none")
    /\ UNCHANGED <<board, clone, has_clone, err, api_calls, setup_step, current_turn,
                   game_winner, no_action_turns, white_king_pos, black_king_pos,
                   driver, moving_piece, legal_moves, last_mover, since_action,
                   resigned_by>>

Next ==
    \/ SetupCall
    \/ PlacePawnCall
    \/ CallPossibleCastles
    \/ StartGameRun
    \/ StartMain
    \/ \E sq \in EngineSquares : SelectPiece(sq)
    \/ ResignAtSelect
    \/ ResignAtDest
    \/ \E sq \in EngineSquares : Reselect(sq)
    \/ \E sq \in EngineSquares : RejectMove(sq)
    \/ \E sq \in EngineSquares : \E k \in PromotionChoices : ApplyMove(sq, k)
    \/ GameRunStep
    \/ MainStep

Spec == Init /\ [][Next]_vars

-----------------------------------------------------------------------------
(* Properties                                                              *)

KingOf(color) == IF color = "white" THEN white_king_pos ELSE black_king_pos

IsPiece(cell, kind, color) == cell.kind = kind /\ cell.color = color

\* The identities of the piece objects held by a grid
IdsOf(grid) == {grid[p].id : p \in BoardSquares} \ {0}

\* The grids that exist in a state
Grids == IF has_clone THEN {board, clone} ELSE {board}

\* C1: for every piece on the live board get_fully_legal_moves(piece) returns
\* (without raising) exactly the pseudo-legal destinations after which the
\* mover's king, on the destination for a king and on the cached square
\* otherwise, is not in check.
C1_FullyLegalMovesAreTheSafeOnes ==
    \A p \in BoardSquares :
        board[p] # None =>
            LET piece == board[p]
                r == get_fully_legal_moves(piece, board, white_king_pos, black_king_pos)
                pseudo == get_legal_moves(piece, board)
                Safe(m) ==
                    ~_is_in_check(piece.color, move_piece(board, p, m),
                                  IF piece.kind = "King" THEN m ELSE KingOf(piece.color))
            IN /\ r.err = "none"
               /\ ~pseudo.is_none
               /\ SeqToSet(r.list) = {m \in SeqToSet(pseudo.list) : Safe(m)}

\* C2: on every board reached by move_piece, perform_castle and promote_pawn
\* calls, a piece held in cell (file, rank) stores position (file, rank), and
\* no piece object is held by two cells.
C2_PositionMatchesCell ==
    \A g \in Grids :
        /\ \A p \in BoardSquares : g[p] # None => g[p].position = p
        /\ Cardinality(IdsOf(g)) = NumPieces(g)

\* C2 witness: after the setup moves and a promotion, a castle has moved the
\* king to g1 and the rook to f1 on the live board.
C2_Witness ==
    /\ setup_step = Len(SetupScript)
    /\ last_op.name = "perform_castle"
    /\ last_op.target = "live"
    /\ api_calls = 2
    /\ IsPiece(board[Position(7, 1)], "King", "white")
    /\ IsPiece(board[Position(6, 1)], "Rook", "white")
    /\ \E p \in BoardSquares : board[p].id > 32

\* C3: once c = board.deep_copy() exists, a move_piece, perform_castle or
\* promote_pawn call on c leaves the live board as it was, and such a call on
\* the live board leaves c as it was.
C3_CopyIsIndependent ==
    [][(has_clone /\ api_calls' = api_calls + 1) =>
           /\ last_op'.target = "clone" => board' = board
           /\ last_op'.target = "live" => clone' = clone]_vars

\* C3 witness: a king move on the copy has acted; the live king is still on e1.
C3_Witness ==
    /\ has_clone
    /\ last_op.name = "move_piece"
    /\ last_op.target = "clone"
    /\ IsPiece(clone[Position(7, 1)], "King", "white")
    /\ clone[Position(5, 1)] = None
    /\ IsPiece(board[Position(5, 1)], "King", "white")
    /\ board[Position(5, 1)].has_moved = "False"

\* C4: deep_copy of any board reached from the initial setup, the initial
\* board included, completes without error and returns a board with, on
\* every square, a piece of the same kind, colour, position and has_moved.
C4_DeepCopyCompletes ==
    last_op.name = "deep_copy" =>
        /\ err = "none"
        /\ has_clone
        /\ \A p \in BoardSquares :
              /\ clone[p].kind = board[p].kind
              /\ clone[p].color = board[p].color
              /\ clone[p].position = board[p].position
              /\ clone[p].has_moved = board[p].has_moved

\* C5: after every operation that relocates a king (a move applied by
\* play_turn, Board.perform_castle on the live board) the cached king square
\* of each colour holds the King of that colour on the live board.
C5_KingCacheTracksKings ==
    (last_op.target = "live" /\ last_op.name \in {"move", "perform_castle"}) =>
        /\ IsPiece(get_piece(board, white_king_pos), "King", "white")
        /\ IsPiece(get_piece(board, black_king_pos), "King", "black")

\* C6: the side to move flips after every accepted move: when a turn begins
\* after an applied move, current_turn is not the colour that moved last.
C6_TurnFlipsAfterMove ==
    (pc \in {"select", "ask_dest"} /\ last_mover # "none") => current_turn # last_mover

\* C7: once game_winner holds a result, no step changes the board, the
\* king-location cache or the inactivity counter.
C7_NothingMovesAfterResult ==
    [][game_winner # "None" =>
           /\ board' = board
           /\ white_king_pos' = white_king_pos
           /\ black_king_pos' = black_king_pos
           /\ no_action_turns' = no_action_turns]_vars

\* C8: a resignation records the opponent of the side to move as the winner
\* and applies no move to the board, and when the loop of game_run has exited
\* after a resignation that result is still recorded.
C8_ResignGivesOpponentTheWin ==
    /\ [][(pc \in {"select", "ask_dest"} /\ last_op'.name = "resign") =>
              /\ board' = board
              /\ current_turn = "white" => game_winner' = "black"
              /\ current_turn = "black" => game_winner' = "white"]_vars
    /\ []((pc = "exited" /\ driver = "game_run" /\ resigned_by # "none") =>
              /\ resigned_by = "white" => game_winner = "black"
              /\ resigned_by = "black" => game_winner = "white")

\* C8 witness: game_run has exited after black resigned at the destination
\* prompt or the selection prompt, with moves played before.
C8_Witness ==
    /\ pc = "exited"
    /\ driver = "game_run"
    /\ resigned_by = "black"
    /\ game_winner = "white"
    /\ last_mover # "none"

\* C9: an applied move sets the inactivity counter to 0 if the moved piece is
\* a pawn or the destination held an enemy piece just before the move, and to
\* its previous value plus 1 otherwise; so the counter always equals the
\* number of half-moves applied since the last capture or pawn move.
C9_CounterCountsQuietHalfMoves ==
    /\ [][(pc = "ask_dest" /\ last_op'.name = "move") =>
              no_action_turns' =
                  IF \/ moving_piece.kind = "Pawn"
                     \/ /\ board[last_op'.end] # None
                        /\ board[last_op'.end].color # moving_piece.color
                  THEN 0 ELSE no_action_turns + 1]_vars
    /\ [](no_action_turns = since_action)

\* C9 witness: a capture has just been applied (8 of the 9 pieces of the
\* prepared position are left) and reset the counter.
C9_Witness ==
    /\ last_op.name = "move"
    /\ setup_step = Len(SetupScript)
    /\ NumPieces(board) = 8
    /\ last_mover = "black"
    /\ no_action_turns = 0

HasLegalMove(grid, turn, wk, bk) ==
    \E p \in BoardSquares :
        /\ grid[p] # None
        /\ grid[p].color = turn
        /\ get_fully_legal_moves(grid[p], grid, wk, bk).err = "none"
        /\ get_fully_legal_moves(grid[p], grid, wk, bk).list # << >>

NoLegalMove(grid, turn, wk, bk) ==
    \A p \in BoardSquares :
        (grid[p] # None /\ grid[p].color = turn) =>
            /\ get_fully_legal_moves(grid[p], grid, wk, bk).err = "none"
            /\ get_fully_legal_moves(grid[p], grid, wk, bk).list = << >>

\* C11: when check_game_ended runs with no result recorded and the counter
\* below 50, it completes and records a win for the opponent of the side to
\* move iff that side has no fully legal move and its king is in check,
\* 'draw' iff it has no fully legal move and its king is not in check, and
\* nothing if it has a fully legal move.
C11_MateAndStalemateAreRecorded ==
    [][(/\ pc = "turn_done"
        /\ last_op'.name = "check_game_ended"
        /\ game_winner = "None"
        /\ no_action_turns < DrawLimit) =>
           LET turn == current_turn'
               stuck == NoLegalMove(board, turn, white_king_pos, black_king_pos)
               checked == _is_in_check(turn, board, KingOf(turn))
           IN /\ err' = "none"
              /\ (game_winner' = _opposite_color(turn)) <=> (stuck /\ checked)
              /\ (game_winner' = "draw") <=> (stuck /\ ~checked)
              /\ HasLegalMove(board, turn, white_king_pos, black_king_pos) =>
                     game_winner' = "None"]_vars

\* C12: when the destination asked for is not among the fully legal moves of
\* the selected piece and holds no piece of the side to move, nothing is
\* applied: the board (every piece's position and has_moved), the king cache,
\* the inactivity counter, the turn and the result are unchanged.
C12_RejectedMoveChangesNothing ==
    [][(/\ pc = "ask_dest"
        /\ last_op'.name \in {"reject", "move"}
        /\ last_op'.end \notin
               SeqToSet(get_fully_legal_moves(moving_piece, board, white_king_pos,
                                              black_king_pos).list)) =>
           /\ last_op'.name = "reject"
           /\ board' = board
           /\ white_king_pos' = white_king_pos
           /\ black_king_pos' = black_king_pos
           /\ no_action_turns' = no_action_turns
           /\ current_turn' = current_turn
           /\ game_winner' = game_winner]_vars

\* C12 witness: the white rook on b1 shields its king from the black rook on
\* a1; its pseudo-legal move to b8 would expose the king and has just been
\* rejected.
C12_Witness ==
    /\ last_op.name = "reject"
    /\ pc = "ask_dest"
    /\ last_op.end = Position(2, 8)
    /\ moving_piece.position = Position(2, 1)
    /\ IsPiece(board[Position(1, 1)], "Rook", "black")
    /\ Position(2, 8) \in SeqToSet(get_legal_moves(moving_piece, board).list)
    /\ board[Position(2, 1)] = moving_piece

\* The grid a direct Board call acts on, before and after the call
CalledGrid(target) == IF target = "live" THEN board ELSE clone

\* C13: move_piece(from, to) with from occupied and from # to leaves from
\* empty, to holding the piece that was on from with has_moved true and
\* position to, the piece that was on to nowhere on the board and every
\* other square as it was, whether or not the move is legal in chess.
C13_MovePieceRelocates ==
    [][(last_op'.name = "move_piece" /\ api_calls' = api_calls + 1) =>
           LET g == CalledGrid(last_op'.target)
               h == IF last_op'.target = "live" THEN board' ELSE clone'
               from == last_op'.start
               to == last_op'.end
           IN (get_piece(g, from) # None /\ from # to) =>
                  /\ h[from] = None
                  /\ h[to] = [g[from] EXCEPT !.position = to, !.has_moved = "True"]
                  /\ g[to] # None => \A q \in BoardSquares : h[q].id # g[to].id
                  /\ \A q \in BoardSquares \ {from, to} : h[q] = g[q]]_vars

\* C13 witness: move_piece(h1, e1) on the live board of the prepared position
\* has put the rook on the square of its own king, which is gone.
C13_Witness ==
    /\ last_op.name = "move_piece"
    /\ last_op.target = "live"
    /\ last_op.start = Position(8, 1)
    /\ last_op.end = Position(5, 1)
    /\ api_calls = 1
    /\ setup_step = Len(SetupScript)
    /\ board[Position(8, 1)] = None
    /\ IsPiece(board[Position(5, 1)], "Rook", "white")
    /\ board[Position(5, 1)].has_moved = "True"
    /\ NumPieces(board) = 8

\* C14: move_piece(from, to) with from empty or off the board changes
\* nothing: the grid of the board it is called on and of the other board,
\* with every piece's position and has_moved, are as before.
C14_MovePieceFromEmptyIsNoOp ==
    [][(/\ last_op'.name = "move_piece"
        /\ api_calls' = api_calls + 1
        /\ get_piece(CalledGrid(last_op'.target), last_op'.start) = None) =>
           /\ board' = board
           /\ clone' = clone]_vars

\* C14 witness: move_piece from the empty g1 to e1 has been called on the
\* prepared position; the king on e1 is still there and has not moved.
C14_Witness ==
    /\ last_op.name = "move_piece"
    /\ last_op.target = "live"
    /\ setup_step = Len(SetupScript)
    /\ last_op.start = Position(7, 1)
    /\ last_op.end = Position(5, 1)
    /\ board[Position(7, 1)] = None
    /\ IsPiece(board[Position(5, 1)], "King", "white")
    /\ board[Position(5, 1)].has_moved = "False"

\* C15: perform_castle(king_from, king_to), called with a king on king_from
\* and a rook on the corner of that rank (file 8 if king_to.file is 7, file 1
\* if it is 3), leaves the king on king_to and that rook on file 6 (resp. 4)
\* of the rank, both with has_moved true, their origin squares empty and
\* every other square as it was.
C15_CastleMovesKingAndRook ==
    [][(last_op'.name = "perform_castle" /\ api_calls' = api_calls + 1) =>
           LET g == CalledGrid(last_op'.target)
               h == IF last_op'.target = "live" THEN board' ELSE clone'
               king_from == last_op'.start
               king_to == last_op'.end
               rook_from == Position(IF king_to.xpos = 7 THEN 8 ELSE 1, king_from.ypos)
               rook_to == Position(IF king_to.xpos = 7 THEN 6 ELSE 4, king_from.ypos)
           IN (/\ king_to.xpos \in {3, 7}
               /\ g[king_from].kind = "King"
               /\ g[rook_from].kind = "Rook") =>
                  /\ h[king_from] = None
                  /\ h[rook_from] = None
                  /\ h[king_to] = [g[king_from] EXCEPT !.position = king_to,
                                                       !.has_moved = "True"]
                  /\ h[rook_to] = [g[rook_from] EXCEPT !.position = rook_to,
                                                       !.has_moved = "True"]
                  /\ \A q \in BoardSquares \ {king_from, king_to, rook_from, rook_to} :
                         h[q] = g[q]]_vars

\* C15 witness: a queen-side castle on the live board of the prepared
\* position: king on c1, rook from a1 on d1, a1 and e1 empty.
C15_Witness ==
    /\ last_op.name = "perform_castle"
    /\ last_op.target = "live"
    /\ last_op.end = Position(3, 1)
    /\ api_calls = 1
    /\ setup_step = Len(SetupScript)
    /\ IsPiece(board[Position(3, 1)], "King", "white")
    /\ IsPiece(board[Position(4, 1)], "Rook", "white")
    /\ board[Position(4, 1)].has_moved = "True"
    /\ board[Position(1, 1)] = None
    /\ board[Position(5, 1)] = None

\* C16: promote_pawn(sq, kind) on a square holding a pawn puts there a newly
\* constructed piece of the requested kind with the pawn's colour, position sq
\* and has_moved true, and leaves every other square as it was; when the pawn
\* had just been moved there from the 7th to the 8th rank, the origin square
\* is empty afterwards.
C16_PromotionReplacesThePawn ==
    [][(last_op'.name = "promote_pawn" /\ api_calls' = api_calls + 1) =>
           LET g == CalledGrid(last_op'.target)
               h == IF last_op'.target = "live" THEN board' ELSE clone'
               sq == last_op'.start
           IN get_piece(g, sq).kind = "Pawn" =>
                  /\ err' = "none"
                  /\ h[sq].kind = last_op'.choice
                  /\ h[sq].color = g[sq].color
                  /\ h[sq].position = sq
                  /\ h[sq].has_moved = "True"
                  /\ h[sq].id \notin IdsOf(board) \cup IdsOf(clone)
                  /\ \A q \in BoardSquares \ {sq} : h[q] = g[q]
                  /\ (/\ last_op.name = "move_piece"
                      /\ last_op.target = last_op'.target
                      /\ last_op.end = sq
                      /\ last_op.start.ypos = 7
                      /\ sq.ypos = 8
                      /\ on_board(last_op.start)) => h[last_op.start] = None]_vars

\* C16 witness: on the prepared position the pawn on h7 has been moved to h8
\* by move_piece and promoted there to a queen; h7 is empty.
C16_Witness ==
    /\ last_op.name = "promote_pawn"
    /\ last_op.target = "live"
    /\ last_op.start = Position(8, 8)
    /\ last_op.choice = "Queen"
    /\ err = "none"
    /\ api_calls = 2
    /\ setup_step = Len(SetupScript)
    /\ board[Position(8, 8)].kind = "Queen"
    /\ board[Position(8, 8)].has_moved = "True"
    /\ board[Position(8, 8)].id = PromotedId(24)
    /\ board[Position(8, 7)] = None

\* C17: promote_pawn(sq, kind) on a square that is empty, off the board or
\* holds a piece that is not a pawn raises an exception and leaves the board
\* it is called on, and the other board, exactly as they were.
C17_PromotionOfNonPawnFails ==
    [][(/\ last_op'.name = "promote_pawn"
        /\ api_calls' = api_calls + 1
        /\ get_piece(CalledGrid(last_op'.target), last_op'.start).kind # "Pawn") =>
           /\ err' = "Exception"
           /\ board' = board
           /\ clone' = clone]_vars

\* C17 witness: promote_pawn on e1, where the white king stands, has raised;
\* the king is still there.
C17_Witness ==
    /\ last_op.name = "promote_pawn"
    /\ last_op.target = "live"
    /\ last_op.start = Position(5, 1)
    /\ err = "Exception"
    /\ setup_step = Len(SetupScript)
    /\ IsPiece(board[Position(5, 1)], "King", "white")
    /\ board[Position(5, 1)].id = 5

\* The rank from which a pawn of the colour reaches its far rank in one step
LastRankBeforePromotion(color) == IF color = "white" THEN 7 ELSE 2

\* C18: play_turn completes a pawn's move to the far rank with its promotion:
\* a pawn of the side to move standing one rank before its far rank, once
\* selected, is asked its destination; the square a pawn was moved to on rank
\* 1 or 8 holds a queen, rook, bishop or knight of the mover's colour; and
\* after every completed turn no pawn stands on rank 1 or 8 of the live board.
C18_PawnOnFarRankIsPromoted ==
    /\ (/\ last_op.name \in {"select", "reselect"}
        /\ moving_piece.kind = "Pawn"
        /\ moving_piece.position.ypos = LastRankBeforePromotion(moving_piece.color)) =>
           (pc = "ask_dest" /\ err = "none")
    /\ (last_op.name = "move" /\ last_op.choice # "none") =>
           /\ board[last_op.end].kind \in PromotionChoices
           /\ board[last_op.end].color = last_mover
    /\ (pc \in {"turn_done", "exited"} \/ (pc = "select" /\ last_mover # "none")) =>
           \A p \in BoardSquares :
               (board[p].kind = "Pawn") => p.ypos \notin {1, 8}

Abs(n) == IF n < 0 THEN -n ELSE n

\* The squares strictly between p and k on the line through them
Between(p, k) ==
    {q \in BoardSquares \ {p, k} :
        /\ (q.xpos - k.xpos) * (p.ypos - k.ypos) = (q.ypos - k.ypos) * (p.xpos - k.xpos)
        /\ (q.xpos - k.xpos) * (p.xpos - q.xpos) >= 0
        /\ (q.ypos - k.ypos) * (p.ypos - q.ypos) >= 0}

OnSameLine(p, k) == p # k /\ (p.xpos = k.xpos \/ p.ypos = k.ypos)

OnSameDiagonal(p, k) == p # k /\ Abs(p.xpos - k.xpos) = Abs(p.ypos - k.ypos)

AtKnightOffset(p, k) ==
    {Abs(p.xpos - k.xpos), Abs(p.ypos - k.ypos)} = {1, 2}

\* An enemy rook or queen on the file or rank of k, or an enemy bishop or
\* queen on a diagonal of k, with nothing in between; or an enemy knight a
\* knight's move away
AttackedByLineOrKnight(color, grid, k) ==
    \E p \in BoardSquares :
        /\ grid[p] # None
        /\ grid[p].color # color
        /\ \/ /\ grid[p].kind \in {"Rook", "Queen"}
              /\ OnSameLine(p, k)
              /\ \A q \in Between(p, k) : grid[q] = None
           \/ /\ grid[p].kind \in {"Bishop", "Queen"}
              /\ OnSameDiagonal(p, k)
              /\ \A q \in Between(p, k) : grid[q] = None
           \/ /\ grid[p].kind = "Knight"
              /\ AtKnightOffset(p, k)

\* C20: _is_in_check(color, board, king_square) returns True whenever an
\* enemy rook or queen stands on the file or rank of king_square, or an enemy
\* bishop or queen on one of its diagonals, with every square in between
\* empty, and whenever an enemy knight stands a knight's move away.
C20_LineAndKnightAttacksAreCheck ==
    (last_op.name = "_is_in_check"
         /\ AttackedByLineOrKnight(last_op.target, board, last_op.start)) =>
        last_op.choice = "True"

\* C20 witness: the white queen has taken on d8, next to the black king on
\* e8, and _is_in_check('black', board, e8) has returned True.
C20_Witness ==
    /\ last_op.name = "_is_in_check"
    /\ last_op.target = "black"
    /\ last_op.start = Position(5, 8)
    /\ last_op.choice = "True"
    /\ IsPiece(board[Position(5, 8)], "King", "black")
    /\ IsPiece(board[Position(4, 8)], "Queen", "white")
    /\ \A p \in BoardSquares \ {Position(4, 8)} :
           ~(IsPiece(board[p], "Knight", "white") /\ AtKnightOffset(p, Position(5, 8)))

\* The directions a sliding piece of the kind moves along
SlidingDirections(kind) ==
    CASE kind = "Rook" -> {<<1, 0>>, <<-1, 0>>, <<0, 1>>, <<0, -1>>}
      [] kind = "Bishop" -> {<<1, 1>>, <<-1, -1>>, <<1, -1>>, <<-1, 1>>}
      [] OTHER -> {<<1, 0>>, <<-1, 0>>, <<0, 1>>, <<0, -1>>,
                   <<1, 1>>, <<-1, -1>>, <<1, -1>>, <<-1, 1>>}

\* The n-th square from position in direction d
Step(position, d, n) == Position(position.xpos + n * d[1], position.ypos + n * d[2])

\* The squares a piece sliding in direction d may go to: the empty squares up
\* to the first occupied one, and that one if it holds a piece of the other
\* colour
RaySquares(grid, piece, d) ==
    {q \in BoardSquares :
        \E n \in 1..7 :
            /\ q = Step(piece.position, d, n)
            /\ \A m \in 1..(n - 1) : get_piece(grid, Step(piece.position, d, m)) = None
            /\ (grid[q] = None \/ grid[q].color # piece.color)}

SlidingSquares(grid, piece) ==
    UNION {RaySquares(grid, piece, d) : d \in SlidingDirections(piece.kind)}

\* C21: for every rook, bishop and queen on the live board, get_legal_moves
\* returns a list holding exactly, for each direction of the piece, the empty
\* squares up to the first occupied one plus that one iff it holds a piece of
\* the other colour.
C21_SlidingMovesStopAtFirstPiece ==
    \A p \in BoardSquares :
        board[p].kind \in {"Rook", "Bishop", "Queen"} =>
            LET returned == get_legal_moves(board[p], board) IN
            /\ ~returned.is_none
            /\ SeqToSet(returned.list) = SlidingSquares(board, board[p])

\* C22: for every piece on the live board, of whatever kind, get_legal_moves
\* returns a list of squares that are all on the board and none of which
\* holds a piece of the mover's colour.
C22_PseudoLegalMovesOnBoardNotOwn ==
    \A p \in BoardSquares :
        board[p] # None =>
            LET returned == get_legal_moves(board[p], board) IN
            /\ ~returned.is_none
            /\ \A i \in 1..Len(returned.list) :
                   /\ on_board(returned.list[i])
                   /\ get_piece(board, returned.list[i]).color # board[p].color

\* The 8 squares around a king and the 8 squares a knight jumps to
KingSteps ==
    {<<1, 0>>, <<-1, 0>>, <<0, 1>>, <<0, -1>>, <<1, 1>>, <<-1, -1>>, <<1, -1>>, <<-1, 1>>}

KnightSteps ==
    {<<2, 1>>, <<-2, 1>>, <<2, -1>>, <<-2, -1>>, <<1, 2>>, <<1, -2>>, <<-1, 2>>, <<-1, -2>>}

\* The squares at the fixed offsets of a stepping piece that are on the board
\* and hold no piece of its colour
SteppingSquares(grid, piece) ==
    {q \in BoardSquares :
        /\ \E d \in (IF piece.kind = "King" THEN KingSteps ELSE KnightSteps) :
               q = Step(piece.position, d, 1)
        /\ grid[q].color # piece.color}

\* C23: for every king and knight on the live board, get_legal_moves returns
\* a list holding exactly the squares at the piece's 8 fixed offsets that are
\* on the board and not occupied by a piece of the same colour.
C23_SteppingMovesAreTheFreeOffsets ==
    \A p \in BoardSquares :
        board[p].kind \in {"King", "Knight"} =>
            LET returned == get_legal_moves(board[p], board) IN
            /\ ~returned.is_none
            /\ SeqToSet(returned.list) = SteppingSquares(board, board[p])

\* The rank direction a pawn of the colour advances in
Forward(color) == IF color = "white" THEN 1 ELSE -1

\* C24: for every pawn on the live board, get_legal_moves returns a list in
\* which the square one rank forward is present iff it is on the board and
\* empty, the square two ranks forward only if the pawn has not moved and
\* both squares ahead are empty, a forward-diagonal square only if it holds
\* an enemy piece, and nothing else.
C24_PawnMoves ==
    \A p \in BoardSquares :
        board[p].kind = "Pawn" =>
            LET pawn == board[p]
                returned == get_legal_moves(pawn, board)
                moves == SeqToSet(returned.list)
                one == Step(pawn.position, <<0, Forward(pawn.color)>>, 1)
                two == Step(pawn.position, <<0, Forward(pawn.color)>>, 2)
                diagonals == {Step(pawn.position, <<dx, Forward(pawn.color)>>, 1) :
                                  dx \in {-1, 1}}
            IN /\ ~returned.is_none
               /\ one \in moves <=> (on_board(one) /\ get_piece(board, one) = None)
               /\ two \in moves =>
                      /\ pawn.has_moved = "False"
                      /\ on_board(two)
                      /\ get_piece(board, one) = None
                      /\ get_piece(board, two) = None
               /\ \A q \in diagonals :
                      q \in moves =>
                          /\ get_piece(board, q) # None
                          /\ get_piece(board, q).color # pawn.color
               /\ moves \subseteq ({one, two} \cup diagonals)

\* C25: in the initial position of a new GameEngine, get_fully_legal_moves
\* completes without error and returns no move for the white rook on a1,
\* exactly e3 and e4 for the white pawn on e2 and exactly a3 and c3 for the
\* white knight on b1.
C25_InitialPositionMoves ==
    (setup_step = 0 /\ board = _setup_pieces) =>
        LET Moves(sq) == get_fully_legal_moves(board[sq], board, white_king_pos,
                                               black_king_pos)
        IN /\ Moves(Position(1, 1)).err = "none"
           /\ Moves(Position(1, 1)).list = << >>
           /\ Moves(Position(5, 2)).err = "none"
           /\ SeqToSet(Moves(Position(5, 2)).list) = {Position(5, 3), Position(5, 4)}
           /\ Moves(Position(2, 1)).err = "none"
           /\ SeqToSet(Moves(Position(2, 1)).list) = {Position(1, 3), Position(3, 3)}

\* The grid with every square emptied that lies, seen from k in direction d,
\* beyond the first non-empty square
ClearBeyondFirst(grid, k, d) ==
    [p \in BoardSquares |->
        IF \E n \in 2..7 : \E m \in 1..(n - 1) :
               /\ p = Step(k, d, n)
               /\ get_piece(grid, Step(k, d, m)) # None
        THEN None ELSE grid[p]]

\* C26: in the ray scan of _is_in_check each of the 8 directions is decided
\* by its first non-empty square alone: what stands beyond that square in the
\* direction does not change the value returned.
C26_RayDecidedByFirstPiece ==
    last_op.name = "_is_in_check" =>
        \A d \in KingSteps :
            _is_in_check(last_op.target, ClearBeyondFirst(board, last_op.start, d),
                         last_op.start)
                = (last_op.choice = "True")

\* An enemy pawn of colour pawn_color diagonally next to k, one rank up
\* (dy = 1) or one rank down (dy = -1)
PawnNextTo(color, grid, k, pawn_color, dy) ==
    \E dx \in {-1, 1} :
        LET cell == get_piece(grid, Position(k.xpos + dx, k.ypos + dy)) IN
        /\ cell # None
        /\ cell.kind = "Pawn"
        /\ cell.color = pawn_color
        /\ cell.color # color

\* An enemy rook or queen anywhere on the file or rank of k, an enemy bishop
\* or queen anywhere on a diagonal of k, or an enemy knight a knight's move
\* away: every enemy piece other than a pawn that the scan can answer True for
OtherAttacker(color, grid, k) ==
    \E p \in BoardSquares :
        /\ grid[p] # None
        /\ grid[p].color # color
        /\ \/ grid[p].kind \in {"Rook", "Queen"} /\ OnSameLine(p, k)
           \/ grid[p].kind \in {"Bishop", "Queen"} /\ OnSameDiagonal(p, k)
           \/ grid[p].kind = "Knight" /\ AtKnightOffset(p, k)

\* C27 as stated: an enemy pawn makes _is_in_check answer True only from one
\* diagonal step away, and exactly when it is white and stands on an upward
\* diagonal of king_square or is black and stands on a downward diagonal.
C27_PawnThreatAsStated ==
    last_op.name = "_is_in_check" =>
        LET color == last_op.target
            k == last_op.start
            hit == \/ PawnNextTo(color, board, k, "white", 1)
                   \/ PawnNextTo(color, board, k, "black", -1)
        IN  /\ hit => last_op.choice = "True"
            /\ (last_op.choice = "True" /\ ~OtherAttacker(color, board, k)) => hit

\* C27 (amended): an enemy pawn makes _is_in_check answer True only from one
\* diagonal step away, and exactly when it is black and stands on an upward
\* diagonal of king_square (rank +1) or is white and stands on a downward
\* diagonal (rank -1): the squares from which a pawn of that colour captures.
C27_PawnThreat ==
    last_op.name = "_is_in_check" =>
        LET color == last_op.target
            k == last_op.start
            hit == \/ PawnNextTo(color, board, k, "black", 1)
                   \/ PawnNextTo(color, board, k, "white", -1)
        IN  /\ hit => last_op.choice = "True"
            /\ (last_op.choice = "True" /\ ~OtherAttacker(color, board, k)) => hit

\* The query for a white king on g6 while the black pawn stands on h7, the
\* only enemy piece that bears on the square
C27_Witness ==
    /\ last_op.name = "_is_in_check"
    /\ last_op.target = "white"
    /\ last_op.start = Position(7, 6)
    /\ last_op.choice = "True"
    /\ IsPiece(board[Position(8, 7)], "Pawn", "black")
    /\ ~OtherAttacker("white", board, Position(7, 6))

\* C28: a call of check_game_ended on a game without a result returns True
\* if and only if it records a result (draw by inactivity, stalemate or
\* checkmate), and returns False exactly when the result stays unset.
C28_ReturnsTrueIffResultRecorded ==
    [][(last_op'.name = "check_game_ended" /\ pc = "turn_done"
            /\ game_winner = "None" /\ err' = "none") =>
           ((last_op'.choice = "True") <=> (game_winner' # "None"))]_vars

KingCount(grid, color) ==
    Cardinality({p \in BoardSquares : IsPiece(grid[p], "King", color)})

\* The number of pieces of a colour on a grid
ColorCount(grid, color) ==
    Cardinality({p \in BoardSquares : grid[p] # None /\ grid[p].color = color})

\* C30: once a game is driven, the live board holds exactly one king of each
\* colour and at most 16 pieces of each colour, and the number of pieces
\* drops by exactly 1 in a step that applies a capture and is unchanged in
\* every other step, promotion included.
C30_KingsAndPieceCount ==
    /\ [](driver # "none" =>
            \A color \in Colors :
                /\ KingCount(board, color) = 1
                /\ ColorCount(board, color) <= 16)
    /\ [][driver # "none" =>
            NumPieces(board') =
                IF /\ pc = "ask_dest"
                   /\ last_op'.name = "move"
                   /\ board[last_op'.end] # None
                THEN NumPieces(board) - 1
                ELSE NumPieces(board)]_vars

\* A turn of play_turn ends: a destination is accepted and applied, or the
\* player resigns at one of the two prompts
TurnEnds ==
    \/ \E sq \in EngineSquares : \E k \in PromotionChoices : ApplyMove(sq, k)
    \/ ResignAtSelect
    \/ ResignAtDest

\* Fair input and a running loop: a turn that can end does end, and game_run
\* goes on after play_turn has returned
SpecFair == Spec /\ WF_vars(TurnEnds) /\ WF_vars(GameRunStep)

\* C31: with fair input game_run terminates with a result: once the loop is
\* running, game_winner is eventually set. (A run that stops with an
\* exception raised at a prompt, where no turn ended, is outside the claim's
\* assumption; a run that stops in check_game_ended is not.)
C31_GameRunRecordsResult ==
    (driver = "game_run") ~>
        \/ game_winner # "None"
        \/ pc = "crashed" /\ last_op.name # "check_game_ended"

\* The while loop of one direction with its passes counted: the list
\* collected, the number of passes through the loop body and whether the
\* capacity guard broke the loop
RECURSIVE RayTrace(_, _, _, _, _, _)
RayTrace(grid, color, current_position, direction, moves, steps) ==
    IF ~on_board(current_position)
    THEN [moves |-> moves, steps |-> steps, guard |-> FALSE]
    ELSE IF CapacityGuard(moves)
    THEN [moves |-> moves, steps |-> steps, guard |-> TRUE]
    ELSE LET piece_on_square == get_piece(grid, current_position) IN
         IF piece_on_square = None
         THEN RayTrace(grid, color, PosAdd(current_position, direction), direction,
                       Append(moves, current_position), steps + 1)
         ELSE IF piece_on_square.color # color
              THEN [moves |-> Append(moves, current_position), steps |-> steps + 1,
                    guard |-> FALSE]
              ELSE [moves |-> moves, steps |-> steps + 1, guard |-> FALSE]

\* The for loop over the directions from the i-th on: the list collected, the
\* largest number of passes of one direction and whether the guard ever broke
\* a loop
RECURSIVE MovesTrace(_, _, _, _, _)
MovesTrace(grid, piece, directions, i, acc) ==
    IF i > Len(directions) THEN acc
    ELSE LET r == RayTrace(grid, piece.color, PosAdd(piece.position, directions[i]),
                           directions[i], acc.moves, 0)
         IN MovesTrace(grid, piece, directions, i + 1,
                       [moves |-> r.moves,
                        steps |-> IF r.steps > acc.steps THEN r.steps ELSE acc.steps,
                        guard |-> acc.guard \/ r.guard])

\* The generation of a rook or bishop traced from the empty list
SlidingTrace(grid, piece) ==
    MovesTrace(grid, piece,
               IF piece.kind = "Rook" THEN RookDirections ELSE BishopDirections, 1,
               [moves |-> << >>, steps |-> 0, guard |-> FALSE])

\* C32: the capacity guard of sliding-move generation never trips: for every
\* rook, bishop or queen on a board the list collected never holds more than
\* 64 squares (it only grows, so its final length bounds every point of the
\* generation), no direction loop makes more than 7 passes, and the guard
\* never breaks a loop.
C32_CapacityGuardNeverTrips ==
    \A g \in Grids : \A p \in BoardSquares :
        /\ g[p].kind \in {"Rook", "Bishop", "Queen"} =>
               Len(get_legal_moves(g[p], g).list) <= MaxCollected
        /\ g[p].kind \in {"Rook", "Bishop"} =>
               LET t == SlidingTrace(g, g[p]) IN
               /\ t.moves = get_legal_moves(g[p], g).list
               /\ ~t.guard
               /\ t.steps <= 7

\* C32 witness: the rook on a1 of the prepared position runs up the whole
\* open a-file to the rook on a8 (7 passes) and collects 10 squares.
C32_Witness ==
    /\ setup_step = Len(SetupScript)
    /\ IsPiece(board[Position(1, 1)], "Rook", "white")
    /\ IsPiece(board[Position(1, 8)], "Rook", "black")
    /\ SlidingTrace(board, board[Position(1, 1)]).steps = 7
    /\ Len(get_legal_moves(board[Position(1, 1)], board).list) = 10

====
